---- MODULE Spec2Model ----
(***************************************************************************)
(* A model of watchd (src/watchd.py): the PatternDetector, the Notifier    *)
(* and the Session event loop.                                             *)
(*                                                                         *)
(* Text is a sequence of tokens: a token is a lower-cased word, the        *)
(* newline "\n", or the byte "\xff" that is not valid UTF-8.  A regular    *)
(* expression \bword\b (re.IGNORECASE) finds a match in a line iff the     *)
(* word is one of the line's tokens.                                       *)
(***************************************************************************)
EXTENDS Integers, Sequences, FiniteSets, TLC

(***************************************************************************)
(* Program constants.                                                      *)
(***************************************************************************)
DEFAULT_PATTERNS ==
  <<"error", "failed", "failure", "traceback", "panic", "fatal",
    "exception", "segmentation fault", "killed", "oom">>

rate_limit == 10

MaxLines == 500

KeepLines == 250

(***************************************************************************)
(* Bounds of the model.                                                    *)
(***************************************************************************)
BurstLen == 125

MaxBursts == 4

MaxFeeds == 2

MaxTextLen == 5

(***************************************************************************)
(* Helpers on sequences.                                                   *)
(***************************************************************************)
NL == "\n"

HasNewline(s) == \E i \in 1..Len(s) : s[i] = NL

FirstNewline(s) == CHOOSE i \in 1..Len(s) : s[i] = NL /\ \A j \in 1..(i - 1) : s[j] # NL

\* '\n'.join(ls)
RECURSIVE Join(_)
Join(ls) ==
  IF Len(ls) = 0 THEN <<>>
  ELSE IF Len(ls) = 1 THEN ls[1]
  ELSE ls[1] \o <<NL>> \o Join(Tail(ls))

\* the Python slice s[a:b] of a list, 0-based, 0 <= a
Slice(s, a, b) == SubSeq(s, a + 1, IF b > Len(s) THEN Len(s) ELSE b)

\* the Python slice s[-n:]
LastN(s, n) == IF Len(s) <= n THEN s ELSE SubSeq(s, Len(s) - n + 1, Len(s))

Max(a, b) == IF a > b THEN a ELSE b

(***************************************************************************)
(* PatternDetector                                                         *)
(***************************************************************************)
\* pattern.search(line)
Search(pattern, line) == \E i \in 1..Len(line) : line[i] = pattern

MatchesAny(line) == \E p \in 1..Len(DEFAULT_PATTERNS) : Search(DEFAULT_PATTERNS[p], line)

PatternEvent(pattern, context, command) ==
  [event_type |-> "pattern_match", message |-> pattern, priority |-> "high",
   tags |-> <<"warning">>, context |-> context, command |-> command]

\* ScanPatterns without the test "idx not in self.seen"
RECURSIVE ScanPatternsNoDedup(_, _, _, _, _, _)
ScanPatternsNoDedup(p, st, line, lines, idx, command) ==
  IF p > Len(DEFAULT_PATTERNS) THEN st
  ELSE IF Search(DEFAULT_PATTERNS[p], line)
       THEN ScanPatternsNoDedup(p + 1,
              [seen |-> st.seen \cup {idx},
               events |-> Append(st.events,
                            PatternEvent(DEFAULT_PATTERNS[p],
                                         Join(Slice(lines, Max(0, idx - 2), idx + 1)),
                                         command))],
              line, lines, idx, command)
       ELSE ScanPatternsNoDedup(p + 1, st, line, lines, idx, command)

\* the loop "for pattern in self.patterns" for the line at index idx, from
\* the pattern numbered p on; st = [seen, events], lines is self.lines after
\* the append
RECURSIVE ScanPatterns(_, _, _, _, _, _)
ScanPatterns(p, st, line, lines, idx, command) ==
  IF p > Len(DEFAULT_PATTERNS) THEN st
  ELSE IF Search(DEFAULT_PATTERNS[p], line) /\ idx \notin st.seen
       THEN ScanPatterns(p + 1,
              [seen |-> st.seen \cup {idx},
               events |-> Append(st.events,
                            PatternEvent(DEFAULT_PATTERNS[p],
                                         Join(Slice(lines, Max(0, idx - 2), idx + 1)),
                                         command))],
              line, lines, idx, command)
       ELSE ScanPatterns(p + 1, st, line, lines, idx, command)

\* feed without lines 157-158: the list is never cut
TruncateNever(ls) == ls

\* the truncation keeping the oldest lines: self.lines[:250]
TruncateKeepsOldest(ls) == IF Len(ls) > MaxLines THEN SubSeq(ls, 1, KeepLines) ELSE ls

\* if len(self.lines) > 500: self.lines = self.lines[-250:]
Truncate(ls) == IF Len(ls) > MaxLines THEN LastN(ls, KeepLines) ELSE ls

\* the loop "while '\n' in self.partial"; d = [lines, partial, seen, events]
RECURSIVE FeedLoop(_, _)
FeedLoop(d, command) ==
  IF ~HasNewline(d.partial) THEN d
  ELSE LET k     == FirstNewline(d.partial)
           line  == SubSeq(d.partial, 1, k - 1)
           rest  == SubSeq(d.partial, k + 1, Len(d.partial))
           lines == Append(d.lines, line)
           idx   == Len(lines) - 1
           st    == ScanPatterns(1, [seen |-> d.seen, events |-> d.events],
                                 line, lines, idx, command)
       IN FeedLoop([lines |-> Truncate(lines), partial |-> rest,
                    seen |-> st.seen, events |-> st.events], command)

\* feed with "self.partial = data" for "self.partial += data"
FeedForgetsPartial(det, data, command) ==
  FeedLoop([lines |-> det.lines, partial |-> data,
            seen |-> det.seen, events |-> <<>>], command)

\* PatternDetector.feed(data, command) on the detector det = [lines, partial, seen]:
\* the detector afterwards and the list of events returned
Feed(det, data, command) ==
  FeedLoop([lines |-> det.lines, partial |-> det.partial \o data,
            seen |-> det.seen, events |-> <<>>], command)

\* PatternDetector.__init__
NewDetector == [lines |-> <<>>, partial |-> <<>>, seen |-> {}]


(***************************************************************************)
(* Notifier                                                                *)
(***************************************************************************)
\* key = f'{event.event_type}:{event.command}'
NotifierKey(event) == <<event.event_type, event.command>>

\* the test "key in self.last_notify and now - self.last_notify[key] < self.rate_limit"
RateLimited(last_notify, key, t) ==
  key \in DOMAIN last_notify /\ t - last_notify[key] < rate_limit

\* self.last_notify[key] = now
Stamp(last_notify, key, t) ==
  [k \in DOMAIN last_notify \cup {key} |-> IF k = key THEN t ELSE last_notify[k]]

\* Notifier.send(event) run without interruption at time t, the endpoint
\* answering resp; n = [last_notify, posts]
NotifierSend(n, event, t, resp) ==
  LET key == NotifierKey(event) IN
  IF RateLimited(n.last_notify, key, t)
  THEN [last_notify |-> n.last_notify, posts |-> n.posts, result |-> FALSE]
  ELSE [last_notify |-> Stamp(n.last_notify, key, t),
        posts |-> Append(n.posts, [key |-> key, at |-> t, after |-> Len(n.posts)]),
        result |-> (resp = "200")]

\* "for event in events: self.notifier.send(event)"
RECURSIVE SendAll(_, _, _, _)
SendAll(n, events, t, resp) ==
  IF events = <<>> THEN n
  ELSE LET r == NotifierSend(n, Head(events), t, resp)
       IN SendAll([last_notify |-> r.last_notify, posts |-> r.posts],
                  Tail(events), t, resp)

NewNotifier == [last_notify |-> <<>>, posts |-> <<>>]

Responses == {"200", "500", "error"}


(***************************************************************************)
(* Session: inputs of the model                                            *)
(***************************************************************************)
MaxPtyReads == 2

MaxClientReads == 1

MaxTime == 10

InactivityTimeout == 2

\* the command_str of the modelled Session
Cmd == "make"

\* a byte that is not valid UTF-8, and what decode(errors='replace') puts for it
BadByte == "<ff>"

Replacement == "<U+FFFD>"

\* chunks os.read(self.master_fd, 4096) may return
PtyChunks == { <<BadByte, NL>>, <<"error", "failed", NL>> }

\* chunks self.client.recv(4096) may return: raw is the text received,
\* utf8 whether it decodes, json what json.loads makes of it, type the
\* object's 'type', has what its 'data' is ("absent", "nonstring", "string"),
\* data the string (for a resize frame, the rows and columns asked for)
Chunk(raw, utf8, json, type, has, data) ==
  [raw |-> raw, utf8 |-> utf8, json |-> json, type |-> type, has |-> has, data |-> data]

ClientChunks ==
  { Chunk("ls", TRUE, "malformed", "none", "absent", ""),
    Chunk("5", TRUE, "number", "none", "absent", ""),
    Chunk("<ff>", FALSE, "malformed", "none", "absent", ""),
    Chunk("{\"type\":\"bogus\"}", TRUE, "object", "other", "absent", ""),
    Chunk("{\"type\":\"input\"}", TRUE, "object", "input", "absent", ""),
    Chunk("{\"type\":\"input\",\"data\":7}", TRUE, "object", "input", "nonstring", ""),
    Chunk("{\"type\":\"input\",\"data\":\"ls\"}", TRUE, "object", "input", "string", "ls"),
    Chunk("{\"type\":\"input\",\"data\":\"5\"}", TRUE, "object", "input", "string", "5"),
    Chunk("{\"type\":\"resize\",\"rows\":50,\"cols\":100}", TRUE, "object", "resize",
          "absent", "50x100") }

\* wait statuses os.waitpid may report
Statuses ==
  { [kind |-> "exited", val |-> 0], [kind |-> "exited", val |-> 1],
    [kind |-> "signaled", val |-> 9], [kind |-> "other", val |-> 0] }

\* how far the wall clock moves over one readiness wait
TimeSteps == {0, InactivityTimeout + 1, rate_limit}

(***************************************************************************)
(* Session: pure parts                                                     *)
(***************************************************************************)
\* data.decode('utf-8', errors='replace')
Decode(chunk) ==
  [i \in 1..Len(chunk) |-> IF chunk[i] = BadByte THEN Replacement ELSE chunk[i]]

Digits == <<"0", "1", "2", "3", "4", "5", "6", "7", "8", "9">>

\* str(code), as the sequence of its decimal digits
RECURSIVE Str(_)
Str(n) == IF n < 10 THEN <<Digits[n + 1]>> ELSE Append(Str(n \div 10), Digits[(n % 10) + 1])

\* the exit code _handle_exit computes from the wait status
ExitCode(status) ==
  IF status.kind = "exited" THEN status.val
  ELSE IF status.kind = "signaled" THEN 128 + status.val
  ELSE 1

ExitEvent(code, command) ==
  [event_type |-> "exit_code", message |-> Str(code), priority |-> "high",
   tags |-> <<"x">>, context |-> <<>>, command |-> command]

InactivityEvent(timeout, command) ==
  [event_type |-> "inactivity", message |-> Str(timeout), priority |-> "default",
   tags |-> <<"hourglass_done">>, context |-> <<>>, command |-> command]

\* what the code does with a non-empty chunk received from the client:
\* "raise" an exception that nothing catches, "resize" the PTY, or "write"
\* the bytes given to the PTY master
ChunkOutcome(c) ==
  IF ~c.utf8 THEN [do |-> "raise", what |-> "UnicodeDecodeError"]
  ELSE IF c.json = "malformed" THEN [do |-> "write", what |-> c.raw]
  ELSE IF c.json # "object" THEN [do |-> "raise", what |-> "AttributeError"]
  ELSE IF c.type = "resize" THEN [do |-> "resize", what |-> c.data]
  ELSE IF c.type = "input"
       THEN IF c.has = "absent" THEN [do |-> "write", what |-> c.raw]
            ELSE IF c.has = "nonstring" THEN [do |-> "raise", what |-> "AttributeError"]
            ELSE [do |-> "write", what |-> c.data]
  ELSE [do |-> "write", what |-> c.raw]

\* _send_to_client that swallows OSError without clearing self.running
SendToClientKeepRunning(c, msg_type, data, ok) ==
  IF ok THEN [frames |-> Append(c.frames, [type |-> msg_type, data |-> data]),
              running |-> c.running]
  ELSE [frames |-> c.frames, running |-> c.running]

\* _send_to_client(msg_type, data), sendall succeeding (ok) or raising OSError;
\* c = [frames, running]
SendToClient(c, msg_type, data, ok) ==
  IF ok THEN [frames |-> Append(c.frames, [type |-> msg_type, data |-> data]),
              running |-> c.running]
  ELSE [frames |-> c.frames, running |-> FALSE]


(***************************************************************************)
(* State                                                                   *)
(***************************************************************************)
VARIABLES
  pc,                   \* where the thread running Session._loop is
  running,              \* Session.running
  readable,             \* the descriptors the last select reported
  master_open,          \* the PTY master has not been closed
  client_open,          \* the client socket has not been closed
  closes,               \* the descriptors closed, in the order of the closes
  frames,               \* the frames sendall delivered to the client
  pty_reads,            \* the chunks read from the PTY master
  client_reads,         \* the chunks received from the client
  pty_writes,           \* the byte strings written to the PTY master
  write_error,          \* the last os.write to the PTY master raised OSError
  winsize,              \* the window size last set by _resize
  detector,             \* Session.detector: [lines, partial, seen]
  det_events,           \* the events feed has returned
  notifier,             \* the Notifier: [last_notify, posts]
  now,                  \* time.time()
  last_activity,        \* _loop's last_activity
  inactivity_notified,  \* _loop's inactivity_notified
  inactivity_timeout,   \* Session.inactivity_timeout, 0 for None
  cause,                \* why the Session ended
  wait_status,          \* the status waitpid reported, once it has
  obs,                  \* what the Session has been seen to do: see NewObs
  feeds,                \* the number of calls of feed with a short chunk
  bursts,               \* the number of calls of feed with a long chunk
  last_data,            \* the data of the last such call
  truncated,            \* the detector's line list has been cut
  match_log,            \* the completed lines in which some pattern matches
  full_text,            \* a text to be fed to the detector piece by piece
  fed,                  \* the length of the part of full_text fed so far
  th,                   \* the threads calling the shared Notifier's send
  sends                 \* the number of calls of send they have made

vars ==
  <<pc, running, readable, master_open, client_open, closes, frames, pty_reads,
    client_reads, pty_writes, write_error, winsize, detector, det_events,
    notifier, now, last_activity, inactivity_notified, inactivity_timeout,
    cause, wait_status, obs, feeds, bursts, last_data, truncated, match_log,
    full_text, fed, th, sends>>

detGhost == <<feeds, bursts, last_data, truncated, match_log, full_text, fed>>

threadVars == <<th, sends>>

sessionVars ==
  <<pc, running, readable, master_open, client_open, closes, frames, pty_reads,
    client_reads, pty_writes, write_error, winsize, now, last_activity,
    inactivity_notified, inactivity_timeout, cause, wait_status, obs>>

NoStatus == [kind |-> "none", val |-> 0]

\* the record of what the Session has done: window, the inactivity events
\* produced since the last byte read from the PTY master; total, all the
\* inactivity events produced; exit_events, the exit_code events passed to
\* the Notifier; send_failed, whether a sendall to the client has raised
NewObs == [window |-> 0, total |-> 0, exit_events |-> 0, send_failed |-> FALSE]

\* Session.__init__, Session.start and the head of _loop (lines 205-215)
SessionInit ==
  /\ pc = "top"
  /\ running = TRUE
  /\ readable = {}
  /\ master_open = TRUE
  /\ client_open = TRUE
  /\ closes = <<>>
  /\ frames = <<>>
  /\ pty_reads = <<>>
  /\ client_reads = <<>>
  /\ pty_writes = <<>>
  /\ write_error = FALSE
  /\ winsize = "unset"
  /\ detector = NewDetector
  /\ det_events = <<>>
  /\ notifier = NewNotifier
  /\ now = 0
  /\ last_activity = 0
  /\ inactivity_notified = FALSE
  /\ inactivity_timeout \in {0, InactivityTimeout}
  /\ cause = "none"
  /\ wait_status = NoStatus
  /\ obs = NewObs


(***************************************************************************)
(* Session._loop, one action per step of an iteration                      *)
(***************************************************************************)
SetCause(c) == IF cause = "none" THEN c ELSE cause

\* _finish: the closes it makes, in order
FinishCloses(cl) == cl \o <<"master", "client">>

Finish ==
  /\ running' = FALSE
  /\ master_open' = FALSE
  /\ client_open' = FALSE
  /\ closes' = FinishCloses(closes)

\* the watchdog test without "not inactivity_notified"
WatchdogDueAlways(t) ==
  /\ inactivity_timeout # 0
  /\ t - last_activity > inactivity_timeout

\* the watchdog test of lines 231-232 at time t
WatchdogDue(t) ==
  /\ inactivity_timeout # 0
  /\ ~inactivity_notified
  /\ t - last_activity > inactivity_timeout

\* the first descriptor of "for fd in readable" after the one at from
NextFd(rd, from) ==
  IF from = "select" /\ "master" \in rd THEN "master"
  ELSE IF "client" \in rd THEN "client"
  ELSE "reap"

\* lines 217-243: the loop test holds, select returns rd after d seconds,
\* then the watchdog check
Select(d, rd, ok, resp) ==
  /\ pc = "top"
  /\ running
  /\ now + d <= MaxTime
  /\ LET t  == now + d
         ev == InactivityEvent(inactivity_timeout, Cmd)
         n  == NotifierSend(notifier, ev, t, resp)
         c  == SendToClient([frames |-> frames, running |-> running], "event", ev, ok)
     IN /\ now' = t
        /\ readable' = rd
        /\ IF WatchdogDue(t)
           THEN /\ notifier' = [last_notify |-> n.last_notify, posts |-> n.posts]
                /\ frames' = c.frames
                /\ running' = c.running
                /\ inactivity_notified' = TRUE
                /\ cause' = IF ok THEN cause ELSE SetCause("send_failed")
                /\ obs' = [obs EXCEPT !.window = @ + 1, !.total = @ + 1,
                                      !.send_failed = @ \/ ~ok]
           ELSE UNCHANGED <<notifier, frames, running, inactivity_notified, cause, obs>>
        /\ pc' = NextFd(rd, "select")
  /\ UNCHANGED <<master_open, client_open, closes, pty_reads, client_reads, pty_writes,
                 write_error, winsize, detector, det_events, last_activity,
                 inactivity_timeout, wait_status>>
  /\ UNCHANGED <<detGhost, threadVars>>

\* lines 223-228: select raises, the loop is left by break
SelectError ==
  /\ pc = "top"
  /\ running
  /\ pc' = "stopped"
  /\ cause' = SetCause("select_error")
  /\ UNCHANGED <<running, readable, master_open, client_open, closes, frames, pty_reads,
                 client_reads, pty_writes, write_error, winsize, detector, det_events,
                 notifier, now, last_activity, inactivity_notified, inactivity_timeout,
                 wait_status>>
  /\ UNCHANGED <<detGhost, threadVars>>
  /\ UNCHANGED obs

\* line 217: the loop test fails, _loop returns
LoopExit ==
  /\ pc = "top"
  /\ ~running
  /\ pc' = "stopped"
  /\ UNCHANGED <<running, readable, master_open, client_open, closes, frames, pty_reads,
                 client_reads, pty_writes, write_error, winsize, detector, det_events,
                 notifier, now, last_activity, inactivity_notified, inactivity_timeout,
                 cause, wait_status>>
  /\ UNCHANGED <<detGhost, threadVars>>
  /\ UNCHANGED obs

\* the read of a chunk without line 257, inactivity_notified kept as it was
ReadMasterDataNoRearm(data, ok, resp) ==
  /\ pc = "master"
  /\ Len(pty_reads) < MaxPtyReads
  /\ \E c \in {SendToClient([frames |-> frames, running |-> running], "output",
                             Decode(data), ok)},
        f \in {Feed(detector, Decode(data), Cmd)} :
        /\ pty_reads' = Append(pty_reads, data)
        /\ last_activity' = now
        /\ inactivity_notified' = inactivity_notified
        /\ frames' = c.frames
        /\ running' = c.running
        /\ cause' = IF ok THEN cause ELSE SetCause("send_failed")
        /\ detector' = [lines |-> f.lines, partial |-> f.partial, seen |-> f.seen]
        /\ det_events' = det_events \o f.events
        /\ notifier' = SendAll(notifier, f.events, now, resp)
  /\ obs' = [obs EXCEPT !.window = 0, !.send_failed = @ \/ ~ok]
  /\ pc' = NextFd(readable, "master")
  /\ UNCHANGED <<readable, master_open, client_open, closes, client_reads, pty_writes,
                 write_error, winsize, now, inactivity_timeout, wait_status>>
  /\ UNCHANGED <<detGhost, threadVars>>

\* lines 246-265: os.read returns the chunk data
ReadMasterData(data, ok, resp) ==
  /\ pc = "master"
  /\ Len(pty_reads) < MaxPtyReads
  /\ \E c \in {SendToClient([frames |-> frames, running |-> running], "output",
                             Decode(data), ok)},
        f \in {Feed(detector, Decode(data), Cmd)} :
        /\ pty_reads' = Append(pty_reads, data)
        /\ last_activity' = now
        /\ inactivity_notified' = FALSE
        /\ frames' = c.frames
        /\ running' = c.running
        /\ cause' = IF ok THEN cause ELSE SetCause("send_failed")
        /\ detector' = [lines |-> f.lines, partial |-> f.partial, seen |-> f.seen]
        /\ det_events' = det_events \o f.events
        /\ notifier' = SendAll(notifier, f.events, now, resp)
  /\ obs' = [obs EXCEPT !.window = 0, !.send_failed = @ \/ ~ok]
  /\ pc' = NextFd(readable, "master")
  /\ UNCHANGED <<readable, master_open, client_open, closes, client_reads, pty_writes,
                 write_error, winsize, now, inactivity_timeout, wait_status>>
  /\ UNCHANGED <<detGhost, threadVars>>

\* the branch "if not data" without its return: _finish, then the rest of
\* the iteration
ReadMasterEOFNoReturn ==
  /\ pc = "master"
  /\ Finish
  /\ pc' = NextFd(readable, "master")
  /\ cause' = SetCause("pty_eof")
  /\ UNCHANGED <<readable, frames, pty_reads, client_reads, pty_writes, write_error,
                 winsize, detector, det_events, notifier, now, last_activity,
                 inactivity_notified, inactivity_timeout, wait_status>>
  /\ UNCHANGED <<detGhost, threadVars>>
  /\ UNCHANGED obs

\* lines 246-254: os.read returns no byte, or raises OSError
ReadMasterEOF ==
  /\ pc = "master"
  /\ Finish
  /\ pc' = "done"
  /\ cause' = SetCause("pty_eof")
  /\ UNCHANGED <<readable, frames, pty_reads, client_reads, pty_writes, write_error,
                 winsize, detector, det_events, notifier, now, last_activity,
                 inactivity_notified, inactivity_timeout, wait_status>>
  /\ UNCHANGED <<detGhost, threadVars>>
  /\ UNCHANGED obs

\* lines 267-283: recv returns the chunk c; wok: os.write does not raise
RecvData(c, wok) ==
  /\ pc = "client"
  /\ Len(client_reads) < MaxClientReads
  /\ client_reads' = Append(client_reads, c)
  /\ LET o == ChunkOutcome(c)
     IN /\ pc' = IF o.do = "raise" THEN "crashed" ELSE "reap"
        /\ cause' = IF o.do = "raise" THEN SetCause("exception") ELSE cause
        /\ winsize' = IF o.do = "resize" THEN o.what ELSE winsize
        /\ pty_writes' = IF o.do = "write" /\ wok THEN Append(pty_writes, o.what)
                         ELSE pty_writes
        /\ write_error' = (o.do = "write" /\ ~wok)
  /\ UNCHANGED <<running, readable, master_open, client_open, closes, frames, pty_reads,
                 detector, det_events, notifier, now, last_activity,
                 inactivity_notified, inactivity_timeout, wait_status>>
  /\ UNCHANGED <<detGhost, threadVars>>
  /\ UNCHANGED obs

\* lines 284-285: recv returns no byte
RecvEOF ==
  /\ pc = "client"
  /\ running' = FALSE
  /\ cause' = SetCause("client_eof")
  /\ pc' = "reap"
  /\ UNCHANGED <<readable, master_open, client_open, closes, frames, pty_reads,
                 client_reads, pty_writes, write_error, winsize, detector, det_events,
                 notifier, now, last_activity, inactivity_notified, inactivity_timeout,
                 wait_status>>
  /\ UNCHANGED <<detGhost, threadVars>>
  /\ UNCHANGED obs

\* lines 286-287: recv raises OSError
RecvError ==
  /\ pc = "client"
  /\ pc' = "reap"
  /\ UNCHANGED <<running, readable, master_open, client_open, closes, frames, pty_reads,
                 client_reads, pty_writes, write_error, winsize, detector, det_events,
                 notifier, now, last_activity, inactivity_notified, inactivity_timeout,
                 cause, wait_status>>
  /\ UNCHANGED <<detGhost, threadVars>>
  /\ UNCHANGED obs

\* lines 290-292: waitpid returns pid 0, the child still runs
WaitpidRunning ==
  /\ pc = "reap"
  /\ pc' = "top"
  /\ UNCHANGED <<running, readable, master_open, client_open, closes, frames, pty_reads,
                 client_reads, pty_writes, write_error, winsize, detector, det_events,
                 notifier, now, last_activity, inactivity_notified, inactivity_timeout,
                 cause, wait_status>>
  /\ UNCHANGED <<detGhost, threadVars>>
  /\ UNCHANGED obs

\* _handle_exit(status) without the test "if code != 0"
HandleExitAlways(fr, n, status, t, ok, resp) ==
  LET code == ExitCode(status)
      r    == NotifierSend(n, ExitEvent(code, Cmd), t, resp)
      c    == SendToClient([frames |-> fr, running |-> TRUE], "exit", Str(code), ok)
  IN [frames |-> c.frames, notifier |-> [last_notify |-> r.last_notify, posts |-> r.posts],
      passed |-> <<ExitEvent(code, Cmd)>>]

\* _handle_exit(status): the frames and the notifier afterwards, and the
\* events it passed to the Notifier
HandleExit(fr, n, status, t, ok, resp) ==
  LET code == ExitCode(status)
      r    == IF code # 0 THEN NotifierSend(n, ExitEvent(code, Cmd), t, resp)
              ELSE [last_notify |-> n.last_notify, posts |-> n.posts, result |-> FALSE]
      c    == SendToClient([frames |-> fr, running |-> TRUE], "exit", Str(code), ok)
  IN [frames |-> c.frames, notifier |-> [last_notify |-> r.last_notify, posts |-> r.posts],
      passed |-> IF code # 0 THEN <<ExitEvent(code, Cmd)>> ELSE <<>>]

\* the branch "if pid != 0" without _finish and without its return
WaitpidExitedNoReturn(status, ok, resp) ==
  /\ pc = "reap"
  /\ LET h == HandleExit(frames, notifier, status, now, ok, resp)
     IN /\ frames' = h.frames
        /\ notifier' = h.notifier
        /\ obs' = [obs EXCEPT !.exit_events = @ + Len(h.passed),
                              !.send_failed = @ \/ ~ok]
  /\ wait_status' = status
  /\ pc' = "top"
  /\ cause' = SetCause("reaped")
  /\ UNCHANGED <<running, master_open, client_open, closes>>
  /\ UNCHANGED <<readable, pty_reads, client_reads, pty_writes, write_error, winsize,
                 detector, det_events, now, last_activity, inactivity_notified,
                 inactivity_timeout>>
  /\ UNCHANGED <<detGhost, threadVars>>

\* lines 290-294: waitpid reports the child's status
WaitpidExited(status, ok, resp) ==
  /\ pc = "reap"
  /\ LET h == HandleExit(frames, notifier, status, now, ok, resp)
     IN /\ frames' = h.frames
        /\ notifier' = h.notifier
        /\ obs' = [obs EXCEPT !.exit_events = @ + Len(h.passed),
                              !.send_failed = @ \/ ~ok]
  /\ wait_status' = status
  /\ Finish
  /\ pc' = "done"
  /\ cause' = SetCause("reaped")
  /\ UNCHANGED <<readable, pty_reads, client_reads, pty_writes, write_error, winsize,
                 detector, det_events, now, last_activity, inactivity_notified,
                 inactivity_timeout>>
  /\ UNCHANGED <<detGhost, threadVars>>

\* lines 295-297: waitpid raises ChildProcessError
WaitpidNoChild ==
  /\ pc = "reap"
  /\ Finish
  /\ pc' = "done"
  /\ cause' = SetCause("no_child")
  /\ UNCHANGED <<readable, frames, pty_reads, client_reads, pty_writes, write_error,
                 winsize, detector, det_events, notifier, now, last_activity,
                 inactivity_notified, inactivity_timeout, wait_status>>
  /\ UNCHANGED <<detGhost, threadVars>>
  /\ UNCHANGED obs

(***************************************************************************)
(* A PatternDetector used alone                                            *)
(***************************************************************************)
\* a chunk of n lines in which no pattern matches
Quiet(n) == [i \in 1..(2 * n) |-> IF i % 2 = 1 THEN "ok" ELSE NL]

\* chunks fed to the detector
DetChunks ==
  { <<"ok", NL>>, <<"error", "failed", NL>>, <<"error">>, <<NL>> }

\* the positions of the newlines of text: each ends a completed line
LineEnds(text) == {i \in 1..Len(text) : text[i] = NL}

\* the line of text that ends at the newline at position i
LineEndingAt(text, i) ==
  LET start == IF \E j \in 1..(i - 1) : text[j] = NL
               THEN (CHOOSE j \in 1..(i - 1) :
                       text[j] = NL /\ \A k \in (j + 1)..(i - 1) : text[k] # NL) + 1
               ELSE 1
  IN SubSeq(text, start, i - 1)

\* the lines of text ending at the positions in ends, in the order of the text
RECURSIVE LinesAt(_, _)
LinesAt(text, ends) ==
  IF ends = {} THEN <<>>
  ELSE LET i == CHOOSE e \in ends : \A k \in ends : e <= k
       IN <<LineEndingAt(text, i)>> \o LinesAt(text, ends \ {i})

\* the completed lines of text in which some pattern matches
Matching(text) ==
  LinesAt(text, {i \in LineEnds(text) : MatchesAny(LineEndingAt(text, i))})

\* detector.feed(data, command) and the record of what was fed
FeedData(data) ==
  /\ \E f \in {Feed(detector, data, Cmd)}, text \in {detector.partial \o data} :
        /\ detector' = [lines |-> f.lines, partial |-> f.partial, seen |-> f.seen]
        /\ det_events' = det_events \o f.events
        /\ truncated' = (truncated \/ Len(detector.lines) + Cardinality(LineEnds(text)) > MaxLines)
        /\ match_log' = match_log \o Matching(text)
  /\ last_data' = data
  /\ UNCHANGED <<sessionVars, notifier, threadVars>>

\* feed is called with one of the short chunks
FeedChunk(data) ==
  /\ feeds < MaxFeeds
  /\ feeds' = feeds + 1
  /\ bursts' = bursts
  /\ UNCHANGED <<full_text, fed>>
  /\ FeedData(data)

\* feed is called with a chunk of BurstLen lines
FeedBurst ==
  /\ bursts < MaxBursts
  /\ bursts' = bursts + 1
  /\ feeds' = feeds
  /\ UNCHANGED <<full_text, fed>>
  /\ FeedData(Quiet(BurstLen))

\* what the texts fed piece by piece are made of
TextTokens == {"error", "failed", "ok", NL}

\* the texts of at most MaxTextLen tokens
Texts == UNION {[1..n -> TextTokens] : n \in 0..MaxTextLen}

\* feed is called with the next n tokens of full_text
FeedPiece(n) ==
  /\ fed + n <= Len(full_text)
  /\ fed' = fed + n
  /\ full_text' = full_text
  /\ feeds' = feeds + 1
  /\ bursts' = bursts
  /\ FeedData(SubSeq(full_text, fed + 1, fed + n))

\* no text to be fed piece by piece
NoText ==
  /\ full_text = <<>>
  /\ fed = 0

DetGhostInit ==
  /\ feeds = 0
  /\ bursts = 0
  /\ last_data = <<>>
  /\ truncated = FALSE
  /\ match_log = <<>>

(***************************************************************************)
(* Session threads calling the send of the Notifier they share             *)
(* (Daemon._handle_client hands self.notifier to every Session)            *)
(***************************************************************************)
NumThreads == 2

MaxSends == 3

Threads == 1..NumThreads

\* the events the threads send
ThreadEvents == { PatternEvent("error", <<"error">>, Cmd), ExitEvent(1, Cmd) }

Idle == [at |-> "idle", now |-> 0, key |-> <<"", "">>, after |-> 0]

ThreadsInit ==
  /\ th = [t \in Threads |-> Idle]
  /\ sends = 0

\* lines 91-92: thread t enters send(event), reads the clock and builds the key
SendEnter(t, event) ==
  /\ th[t].at = "idle"
  /\ sends < MaxSends
  /\ sends' = sends + 1
  /\ th' = [th EXCEPT ![t] = [at |-> "check", now |-> now, key |-> NotifierKey(event),
                               after |-> Len(notifier.posts)]]
  /\ UNCHANGED <<sessionVars, detector, det_events, notifier, detGhost>>

\* lines 93-94: the rate-limit test
SendCheck(t) ==
  /\ th[t].at = "check"
  /\ th' = [th EXCEPT ![t] = IF RateLimited(notifier.last_notify, th[t].key, th[t].now)
                             THEN Idle
                             ELSE [th[t] EXCEPT !.at = "stamp"]]
  /\ UNCHANGED <<sessionVars, detector, det_events, notifier, detGhost, sends>>

\* line 95: self.last_notify[key] = now
SendStamp(t) ==
  /\ th[t].at = "stamp"
  /\ notifier' = [notifier EXCEPT !.last_notify = Stamp(notifier.last_notify, th[t].key, th[t].now)]
  /\ th' = [th EXCEPT ![t].at = "post"]
  /\ UNCHANGED <<sessionVars, detector, det_events, detGhost, sends>>

\* lines 97-121: the POST is issued, the endpoint answers resp
SendPost(t, resp) ==
  /\ th[t].at = "post"
  /\ notifier' = [notifier EXCEPT !.posts = Append(notifier.posts,
                                              [key |-> th[t].key, at |-> th[t].now,
                                               after |-> th[t].after])]
  /\ th' = [th EXCEPT ![t] = Idle]
  /\ UNCHANGED <<sessionVars, detector, det_events, detGhost, sends>>

\* how far the wall clock moves between two steps of the threads
ClockSteps == {1, rate_limit - 1}

\* the wall clock moves on
Tick(d) ==
  /\ d > 0
  /\ now + d <= MaxTime
  /\ now' = now + d
  /\ UNCHANGED <<pc, running, readable, master_open, client_open, closes, frames,
                 pty_reads, client_reads, pty_writes, write_error, winsize,
                 last_activity, inactivity_notified, inactivity_timeout, cause,
                 wait_status, obs, detector, det_events, notifier, detGhost, threadVars>>

\* Daemon.run, line 391: the sweep keeps the Session in self.sessions
KeptBySweep == running

(***************************************************************************)
(* Specifications                                                          *)
(***************************************************************************)
Init == SessionInit /\ DetGhostInit /\ ThreadsInit /\ NoText

\* the same, the Session having no inactivity timeout
InitNoWatchdog == Init /\ inactivity_timeout = 0

\* the answers of the endpoint tried in a Session: the Session drops what
\* send returns (lines 241, 265, 326) and send leaves the same state for
\* every answer, so one answer stands for all of Responses
SessionResponses == {"200"}

\* one Session
Next ==
  \/ \E d \in TimeSteps, rd \in SUBSET {"master", "client"}, ok \in BOOLEAN, resp \in SessionResponses :
       Select(d, rd, ok, resp)
  \/ SelectError
  \/ LoopExit
  \/ \E data \in PtyChunks, ok \in BOOLEAN, resp \in SessionResponses : ReadMasterData(data, ok, resp)
  \/ ReadMasterEOF
  \/ \E c \in ClientChunks, wok \in BOOLEAN : RecvData(c, wok)
  \/ RecvEOF
  \/ RecvError
  \/ WaitpidRunning
  \/ \E status \in Statuses, ok \in BOOLEAN, resp \in SessionResponses : WaitpidExited(status, ok, resp)
  \/ WaitpidNoChild

Spec == Init /\ [][Next]_vars

\* one PatternDetector fed chunk after chunk
NextDetector ==
  \/ \E data \in DetChunks : FeedChunk(data)
  \/ FeedBurst

SpecDetector == InitNoWatchdog /\ [][NextDetector]_vars

\* a fresh PatternDetector and a text, any text of Texts
InitChunks ==
  /\ SessionInit
  /\ inactivity_timeout = 0
  /\ DetGhostInit
  /\ ThreadsInit
  /\ full_text \in Texts
  /\ fed = 0

\* the text is fed in consecutive pieces of any lengths
NextChunks == \E n \in 1..MaxTextLen : FeedPiece(n)

SpecChunks == InitChunks /\ [][NextChunks]_vars

\* the threads of several Sessions in Notifier.send
NextNotifier ==
  \/ \E t \in Threads, event \in ThreadEvents : SendEnter(t, event)
  \/ \E t \in Threads : SendCheck(t)
  \/ \E t \in Threads : SendStamp(t)
  \/ \E t \in Threads, resp \in Responses : SendPost(t, resp)
  \/ \E d \in ClockSteps : Tick(d)

SpecNotifier == InitNoWatchdog /\ [][NextNotifier]_vars


(***************************************************************************)
(* Properties                                                              *)
(***************************************************************************)
Ended == pc \in {"done", "stopped"}

ExitFrames == SelectSeq(frames, LAMBDA f : f.type = "exit")

OutputFrames == SelectSeq(frames, LAMBDA f : f.type = "output")

EventFrames == SelectSeq(frames, LAMBDA f : f.type = "event")

\* C1: a Session whose loop has ended by child reap, PTY EOF, client EOF or
\* send failure has sent exactly one exit frame, and when a wait status was
\* collected the frame carries the exit code computed from it.
C1_ExactlyOneExitFrame ==
  (Ended /\ cause \in {"reaped", "pty_eof", "client_eof", "send_failed"})
    => /\ Len(ExitFrames) = 1
       /\ wait_status # NoStatus => ExitFrames[1].data = Str(ExitCode(wait_status))

\* C2: once running is false and the loop's thread has ended, the PTY master
\* has been closed and then the client socket, in that order.
C2_ClosedInOrder ==
  (Ended /\ ~running) => closes = <<"master", "client">>

\* C3: two POSTs issued for the same key are at least rate_limit seconds
\* apart, also when the threads of several Sessions are in send together.
C3_OnePostPerWindow ==
  \A i, j \in 1..Len(notifier.posts) :
    (i < j /\ notifier.posts[i].key = notifier.posts[j].key)
      => notifier.posts[j].at - notifier.posts[i].at >= rate_limit

\* c is a JSON object of type resize, or of type input with a string as data
UsableControl(c) ==
  /\ c.utf8
  /\ c.json = "object"
  /\ c.type = "resize" \/ (c.type = "input" /\ c.has = "string")

\* C4: a chunk received from the client that is no usable control frame is
\* written verbatim to the PTY master (unless that write itself fails) and
\* the loop goes on.
C4_RawForwarded ==
  [][(Len(client_reads') > Len(client_reads)
        /\ ~UsableControl(client_reads'[Len(client_reads')]))
       => /\ pc' # "crashed"
          /\ write_error' \/ pty_writes' = Append(pty_writes, client_reads'[Len(client_reads')].raw)
    ]_vars

\* C5: once the line list has been truncated, every completed line in which a
\* pattern matches still produces a pattern_match event: a call of feed
\* returns as many events as it completes matching lines.
C5_NoFalseNegative ==
  [][truncated =>
       Len(det_events') - Len(det_events) = Len(match_log') - Len(match_log)]_vars

\* the last line of the context ctx
LastLine(ctx) ==
  IF HasNewline(ctx)
  THEN LET k == CHOOSE i \in 1..Len(ctx) : ctx[i] = NL /\ \A j \in (i + 1)..Len(ctx) : ctx[j] # NL
       IN SubSeq(ctx, k + 1, Len(ctx))
  ELSE ctx

\* C6: until the line list is truncated, the events are, one for one and in
\* order, the completed lines in which some pattern matches; a line produces
\* one event whatever the number of patterns matching it, and none if none does.
C6_OneEventPerMatchingLine ==
  ~truncated =>
    /\ Len(det_events) = Len(match_log)
    /\ \A i \in 1..Len(det_events) :
         /\ LastLine(det_events[i].context) = match_log[i]
         /\ Search(det_events[i].message, match_log[i])

\* a line matched by two patterns and a line matched by none have been completed
C6_Witness ==
  /\ ~truncated
  /\ Len(det_events) = Len(match_log)
  /\ \E i \in 1..Len(match_log) :
       Search("error", match_log[i]) /\ Search("failed", match_log[i])
  /\ Len(detector.lines) > Len(match_log)

\* C7: unless a send to the client failed, every pattern_match event the
\* detector produced has been sent to the client as an event frame.
C7_PatternEventFrames ==
  cause # "send_failed" =>
    \A i \in 1..Len(det_events) :
      \E j \in 1..Len(EventFrames) : EventFrames[j].data = det_events[i]

\* C8: when the Session was torn down because the PTY master reported EOF,
\* the client has received an exit frame.
C8_ExitFrameOnPtyEOF ==
  (cause = "pty_eof" /\ pc = "done") => Len(ExitFrames) >= 1

\* C9: an exit frame is the last frame sent to the client.
C9_ExitFrameIsLast ==
  \A j \in 1..Len(frames) : frames[j].type = "exit" => j = Len(frames)

\* an exit frame has been sent after other frames and the Session is torn down
C9_Witness ==
  /\ pc = "done"
  /\ Len(frames) >= 2
  /\ frames[Len(frames)].type = "exit"
  /\ frames[1].type = "output"

Payloads(fs) == [i \in 1..Len(fs) |-> fs[i].data]

DecodedReads == [i \in 1..Len(pty_reads) |-> Decode(pty_reads[i])]

\* C10 as stated: the payloads of the output frames are, in order, the
\* (decoded) chunks read from the PTY master.
C10_OutputEqualsReads == Payloads(OutputFrames) = DecodedReads

\* C10 amended: the payloads of the output frames are, in order, the decoded
\* chunks read from the PTY master, but for the last chunk read when its send
\* failed; running is then false and no further chunk is read.
C10_OutputPrefixOfReads ==
  LET out == Payloads(OutputFrames) IN
  /\ Len(out) <= Len(pty_reads)
  /\ Len(pty_reads) <= Len(out) + 1
  /\ \A i \in 1..Len(out) : out[i] = Decode(pty_reads[i])
  /\ Len(out) < Len(pty_reads) => ~running

\* two different chunks have been read and delivered, one of them changed by
\* the decoding
C10_Witness ==
  /\ Len(pty_reads) = 2
  /\ pty_reads[1] # pty_reads[2]
  /\ Payloads(OutputFrames) = DecodedReads
  /\ \E i \in 1..2 : Decode(pty_reads[i]) # pty_reads[i]

InactivityFrames ==
  SelectSeq(EventFrames,
            LAMBDA f : f.data = InactivityEvent(inactivity_timeout, Cmd))

\* C11: between two reads of at least one byte from the PTY master (and
\* before the first) at most one inactivity event is produced, and every
\* such read sets the idle clock to the time of the read and re-arms the
\* watchdog.
C11_OneEventPerIdleWindow ==
  [][ /\ obs'.window <= 1
      /\ obs'.total > obs.total => (obs.window = 0 /\ ~inactivity_notified)
      /\ Len(pty_reads') > Len(pty_reads)
           => (last_activity' = now' /\ ~inactivity_notified' /\ obs'.window = 0) ]_vars

\* an event in the idle window before a read and another in the window after
C11_Witness ==
  /\ Len(pty_reads) >= 1
  /\ obs.total = 2
  /\ obs.window = 1
  /\ inactivity_notified

\* C12: with an inactivity timeout T, whenever the loop has seen the clock
\* more than T past the last PTY output, exactly one inactivity event has
\* been produced for that idle interval; it went to the Notifier and, unless
\* a send to the client failed, to the client as an event frame.
C12_IdleLeadsToEvent ==
  (inactivity_timeout # 0 /\ now - last_activity > inactivity_timeout)
    => /\ obs.window = 1
       /\ inactivity_notified
       /\ NotifierKey(InactivityEvent(inactivity_timeout, Cmd))
            \in DOMAIN notifier.last_notify
       /\ ~obs.send_failed => Len(InactivityFrames) = obs.total

\* the second long idle interval of a Session has produced its event frame
C12_Witness ==
  /\ inactivity_timeout # 0
  /\ now - last_activity > inactivity_timeout
  /\ Len(pty_reads) = 1
  /\ Len(InactivityFrames) = 2
  /\ running

ExitPosts ==
  SelectSeq(notifier.posts, LAMBDA q : q.key = <<"exit_code", Cmd>>)

\* C13: a Session passes at most one exit_code event to the Notifier, and
\* only for a nonzero exit code; for the code 0 it passes none, and the exit
\* frame with "0" is still sent to the client (unless a send failed).
C13_ExitEventOnlyNonzero ==
  /\ obs.exit_events <= 1
  /\ Len(ExitPosts) = obs.exit_events
  /\ obs.exit_events = 1 => (wait_status # NoStatus /\ ExitCode(wait_status) # 0)
  /\ (wait_status # NoStatus /\ ExitCode(wait_status) = 0)
       => /\ obs.exit_events = 0
          /\ ~obs.send_failed => ExitFrames = <<[type |-> "exit", data |-> Str(0)]>>

\* a child killed by a signal: one exit_code event, and the exit frame
C13_Witness ==
  /\ wait_status.kind = "signaled"
  /\ obs.exit_events = 1
  /\ Len(ExitPosts) = 1
  /\ Len(ExitFrames) = 1

MasterCloses == SelectSeq(closes, LAMBDA x : x = "master")

\* C17: the PTY master is closed at most once, and once it is closed the
\* Session reads, writes, resizes and waits on it no more: the loop takes
\* no further step.
C17_MasterClosedOnceThenUnused ==
  [][ /\ Len(SelectSeq(closes', LAMBDA x : x = "master")) <= 1
      /\ ~master_open => /\ pc' = pc
                          /\ pty_reads' = pty_reads
                          /\ pty_writes' = pty_writes
                          /\ winsize' = winsize
                          /\ readable' = readable
                          /\ now' = now ]_vars

\* the master was read and written, then closed, once
C17_Witness ==
  /\ ~master_open
  /\ Len(MasterCloses) = 1
  /\ Len(pty_reads) >= 1
  /\ Len(pty_writes) >= 1

\* C18: after every feed the line list has at most 500 entries: it is the
\* list before the call followed by the lines the call completed, cut to its
\* most recent 250 entries, in their order, each time it came to exceed 500.
C18_LinesBounded ==
  [][ \A text \in {detector.partial \o last_data'} :
        LET old   == detector.lines
            ends  == LineEnds(text)
            total == Len(old) + Cardinality(ends)
            kept  == IF total <= MaxLines THEN total
                     ELSE KeepLines
                            + ((total - (MaxLines + 1)) % (MaxLines + 1 - KeepLines))
            drop  == total - kept
        IN /\ Len(detector'.lines) = kept
           /\ kept <= MaxLines
           /\ \A j \in 1..Len(old) :
                 j > drop => detector'.lines[j - drop] = old[j]
           /\ \A e \in ends :
                 LET k == Len(old) + Cardinality({x \in ends : x <= e})
                 IN k > drop => detector'.lines[k - drop] = LineEndingAt(text, e) ]_vars

\* the list has just been cut: 250 lines, the newest the one that matched
C18_Witness ==
  /\ truncated
  /\ Len(detector.lines) = KeepLines
  /\ MatchesAny(detector.lines[KeepLines])
  /\ ~MatchesAny(detector.lines[1])

\* C20: the set of reported indices holds only indices from 0 to 500, so it
\* never has more than 501 elements, however many lines are fed.
C20_SeenBounded ==
  /\ detector.seen \subseteq 0..MaxLines
  /\ Cardinality(detector.seen) <= MaxLines + 1

\* more than 500 lines were fed, and the line at the largest index the list
\* can have, 500, was reported
C20_Witness ==
  /\ truncated
  /\ MaxLines \in detector.seen
  /\ Len(det_events) >= 1

\* C14: however a text is split into consecutive chunks, feeding the chunks
\* in order to a fresh detector yields the events (lines, messages, contexts,
\* order) and the partial buffer that feeding the same text in one call
\* yields.
C14_ChunkingInvariant ==
  \A whole \in {Feed(NewDetector, SubSeq(full_text, 1, fed), Cmd)} :
    /\ det_events = whole.events
    /\ detector.partial = whole.partial

\* a text fed one token at a time: a line with two matches was cut twice,
\* and an unfinished line is left in the buffer
C14_Witness ==
  /\ Len(full_text) >= 4
  /\ fed = Len(full_text)
  /\ feeds = Len(full_text)
  /\ Len(det_events) >= 2
  /\ detector.partial # <<>>

\* the bytes the code writes to the PTY master for the chunk c
WritesOf(c) ==
  IF ChunkOutcome(c).do = "write" THEN <<ChunkOutcome(c).what>> ELSE <<>>

\* C15: a chunk X sent raw makes the Session write to the PTY master exactly
\* the bytes that the control frame of type input with data X makes it write
\* (a failing os.write apart).
C15_InputFrameSameAsRaw ==
  [][Len(client_reads') > Len(client_reads)
       => LET r == client_reads'[Len(client_reads')]
          IN \A c \in ClientChunks :
               (c.utf8 /\ c.json = "object" /\ c.type = "input" /\ c.has = "string"
                  /\ c.data = r.raw)
                 => write_error' \/ pty_writes' = pty_writes \o WritesOf(c)
    ]_vars

\* the thread of _loop has returned or died
LoopStopped == pc \in {"done", "stopped", "crashed"}

\* C19: once the loop of a Session has stopped, whatever the reason, running
\* is false, so that the sweep of the Daemon does not keep the Session.
C19_StoppedLoopIsSwept == LoopStopped => ~KeptBySweep

\* C16: a call of send that begins after a request was issued for the same
\* key by a call made at time t, and that reads a time before t + 10 s,
\* issues no request, whatever the endpoint answered.
C16_RejectedWithinWindow ==
  \A i, j \in 1..Len(notifier.posts) :
    (notifier.posts[i].key = notifier.posts[j].key /\ i <= notifier.posts[j].after)
      => notifier.posts[j].at >= notifier.posts[i].at + rate_limit

====
